---- MODULE Spec2Model ----
(***************************************************************************)
(* A model of taal-client's persistence layer, repository/repository.go:   *)
(* the keys and transactions tables, the statements the Repository runs    *)
(* against them, and the timestamp formatting around them.                 *)
(*                                                                         *)
(* Text is a sequence of one-character strings, so that formatting,        *)
(* SUBSTR and the engine's byte-wise comparison of TEXT values are         *)
(* computed character by character.  A time.Time is [sec, ms]: Unix        *)
(* seconds and the millisecond part (the layouts keep three fractional     *)
(* digits).                                                                *)
(***************************************************************************)
EXTENDS Integers, Sequences, FiniteSets, TLC

\* ------------------------------------------------------------------ bounds

\* Rows the keys table may hold.
MaxKeys == 2
\* Rows the transactions table may hold.
MaxTxs == 2
\* Times the injected clock advances while only transactions are recorded
\* and read (SpecTx).
MaxTick == 6
\* Times it advances while only keys are registered, revoked and read
\* (SpecKeys).
MaxKeyTick == 2
\* Times it advances while every operation is in use (Spec).
MaxAllTick == 1

\* ------------------------------------------------------------------- text

\* The SQL NULL (a nil pointer on the Go side); no stored text is empty.
NULL == <<>>

\* Byte value of each character a timestamp can hold.
Ord(c) ==
  CASE c = " " -> 32 [] c = "+" -> 43 [] c = "-" -> 45 [] c = "." -> 46
    [] c = "0" -> 48 [] c = "1" -> 49 [] c = "2" -> 50 [] c = "3" -> 51
    [] c = "4" -> 52 [] c = "5" -> 53 [] c = "6" -> 54 [] c = "7" -> 55
    [] c = "8" -> 56 [] c = "9" -> 57 [] c = ":" -> 58 [] c = "T" -> 84
    [] c = "Z" -> 90

DigitChars == <<"0", "1", "2", "3", "4", "5", "6", "7", "8", "9">>

IsDigit(c) == \E d \in 1..10 : DigitChars[d] = c

DigitVal(c) == (CHOOSE d \in 1..10 : DigitChars[d] = c) - 1

\* n written with exactly w decimal digits, zero padded.
RECURSIVE Pad(_, _)
Pad(n, w) == IF w = 0 THEN <<>> ELSE Append(Pad(n \div 10, w - 1), DigitChars[(n % 10) + 1])

\* The number a run of digits denotes.
RECURSIVE Atoi(_)
Atoi(s) == IF s = <<>> THEN 0 ELSE 10 * Atoi(SubSeq(s, 1, Len(s) - 1)) + DigitVal(s[Len(s)])

AllDigits(s) == \A i \in 1..Len(s) : IsDigit(s[i])

\* The first position at or after i where a and b differ, or one of them ends.
RECURSIVE FirstDiff(_, _, _)
FirstDiff(a, b, i) ==
  IF i <= Len(a) /\ i <= Len(b) /\ a[i] = b[i] THEN FirstDiff(a, b, i + 1) ELSE i

\* memcmp order of two TEXT values: a < b.
StrLess(a, b) ==
  LET i == FirstDiff(a, b, 1)
  IN  /\ i <= Len(b)
      /\ (i > Len(a) \/ Ord(a[i]) < Ord(b[i]))

\* SQL SUBSTR(s, start, n): the characters at positions start .. start+n-1,
\* positions counted from 1, those before the first character being empty.
Substr(s, start, n) ==
  LET lo == IF start < 1 THEN 1 ELSE start
      hi == IF start + n - 1 > Len(s) THEN Len(s) ELSE start + n - 1
  IN  IF hi < lo THEN <<>> ELSE SubSeq(s, lo, hi)

\* ------------------------------------------------------------------- time

\* Days since 1970-01-01 to the civil date, proleptic Gregorian calendar.
CivilFromDays(days) ==
  LET z   == days + 719468
      era == z \div 146097
      doe == z - era * 146097
      yoe == (doe - doe \div 1460 + doe \div 36524 - doe \div 146096) \div 365
      doy == doe - (365 * yoe + yoe \div 4 - yoe \div 100)
      mp  == (5 * doy + 2) \div 153
      d   == doy - (153 * mp + 2) \div 5 + 1
      m   == IF mp < 10 THEN mp + 3 ELSE mp - 9
      y   == yoe + era * 400 + (IF m <= 2 THEN 1 ELSE 0)
  IN  [year |-> y, month |-> m, day |-> d]

\* The civil date to days since 1970-01-01.
DaysFromCivil(y, m, d) ==
  LET yy  == IF m <= 2 THEN y - 1 ELSE y
      era == yy \div 400
      yoe == yy - era * 400
      mp  == IF m > 2 THEN m - 3 ELSE m + 9
      doy == (153 * mp + 2) \div 5 + d - 1
      doe == yoe * 365 + yoe \div 4 - yoe \div 100 + doy
  IN  era * 146097 + doe - 719468

IsLeap(y) == (y % 4 = 0 /\ y % 100 # 0) \/ y % 400 = 0

DaysIn(y, m) ==
  IF m = 2 THEN (IF IsLeap(y) THEN 29 ELSE 28)
  ELSE IF m \in {4, 6, 9, 11} THEN 30 ELSE 31

\* The date and clock fields of instant t read at UTC offset off seconds.
Civil(t, off) ==
  LET s    == t.sec + off
      date == CivilFromDays(s \div 86400)
      sod  == s % 86400
  IN  [year |-> date.year, month |-> date.month, day |-> date.day,
       hour |-> sod \div 3600, minute |-> (sod % 3600) \div 60, second |-> sod % 60,
       ms |-> t.ms]

\* The instant whose UTC fields are c.
Instant(c) ==
  [sec |-> DaysFromCivil(c.year, c.month, c.day) * 86400
             + c.hour * 3600 + c.minute * 60 + c.second,
   ms  |-> c.ms]

\* t plus h hours (h may be negative).
AddHours(t, h) == [sec |-> t.sec + h * 3600, ms |-> t.ms]

\* Chronological order of instants.
Before(a, b) == a.sec < b.sec \/ (a.sec = b.sec /\ a.ms < b.ms)

\* --------------------------------------------------------------- layouts

\* A layout is the separator between date and clock, how many fields it
\* holds (3: date, 4: hour, 5: minute, 6: second), whether ".999" follows
\* the seconds, and the literal text that ends it.
ISO8601 == [sep |-> "T", fields |-> 6, frac |-> TRUE, zone |-> <<"Z">>]

ISO8601DBOutput == [sep |-> " ", fields |-> 6, frac |-> TRUE, zone |-> <<"Z">>]

ISO8601Sqlite ==
  [sep |-> " ", fields |-> 6, frac |-> TRUE, zone |-> <<"+", "0", "0", ":", "0", "0">>]

\* ".999": the fraction with its trailing zeros dropped, and nothing at
\* all, not even the point, when the fraction is zero.
Frac999(ms) ==
  IF ms = 0 THEN <<>>
  ELSE IF ms % 100 = 0 THEN <<".">> \o Pad(ms \div 100, 1)
  ELSE IF ms % 10 = 0 THEN <<".">> \o Pad(ms \div 10, 2)
  ELSE <<".">> \o Pad(ms, 3)

\* time.Time.Format of the fields c under a layout.
Format(c, layout) ==
  Pad(c.year, 4) \o <<"-">> \o Pad(c.month, 2) \o <<"-">> \o Pad(c.day, 2)
    \o (IF layout.fields >= 4 THEN <<layout.sep>> \o Pad(c.hour, 2) ELSE <<>>)
    \o (IF layout.fields >= 5 THEN <<":">> \o Pad(c.minute, 2) ELSE <<>>)
    \o (IF layout.fields >= 6 THEN <<":">> \o Pad(c.second, 2) ELSE <<>>)
    \o (IF layout.frac THEN Frac999(c.ms) ELSE <<>>)
    \o layout.zone

\* Length of the fixed-width part of a layout.
FixedLen(layout) == CASE layout.fields = 3 -> 10 [] layout.fields = 4 -> 13
                      [] layout.fields = 5 -> 16 [] layout.fields = 6 -> 19

\* How many fraction digits follow the seconds of s (0 when there is no
\* point followed by a digit).
RECURSIVE DigitRun(_, _)
DigitRun(s, i) == IF i <= Len(s) /\ IsDigit(s[i]) THEN 1 + DigitRun(s, i + 1) ELSE 0

FracDigits(s, layout) ==
  IF layout.fields = 6 /\ Len(s) >= 21 /\ s[20] = "." /\ IsDigit(s[21])
  THEN DigitRun(s, 21) ELSE 0

\* The error time.Parse returns.
ParseError == [err |-> "parsing time"]

\* time.Parse(layout, s): the fields s denotes, or ParseError.  After the
\* seconds an optional fraction of any number of digits is accepted.
Parse(layout, s) ==
  LET n    == FixedLen(layout)
      nf   == FracDigits(s, layout)
      rest == n + (IF nf > 0 THEN nf + 1 ELSE 0)
      num(a, b) == Atoi(SubSeq(s, a, b))
      shape ==
        /\ Len(s) = rest + Len(layout.zone)
        /\ AllDigits(SubSeq(s, 1, 4)) /\ s[5] = "-"
        /\ AllDigits(SubSeq(s, 6, 7)) /\ s[8] = "-"
        /\ AllDigits(SubSeq(s, 9, 10))
        /\ layout.fields >= 4 => s[11] = layout.sep /\ AllDigits(SubSeq(s, 12, 13))
        /\ layout.fields >= 5 => s[14] = ":" /\ AllDigits(SubSeq(s, 15, 16))
        /\ layout.fields >= 6 => s[17] = ":" /\ AllDigits(SubSeq(s, 18, 19))
        /\ SubSeq(s, rest + 1, Len(s)) = layout.zone
      c == [year   |-> num(1, 4), month |-> num(6, 7), day |-> num(9, 10),
            hour   |-> IF layout.fields >= 4 THEN num(12, 13) ELSE 0,
            minute |-> IF layout.fields >= 5 THEN num(15, 16) ELSE 0,
            second |-> IF layout.fields >= 6 THEN num(18, 19) ELSE 0,
            ms     |-> IF nf = 0 THEN 0
                       ELSE Atoi(SubSeq(SubSeq(s, 21, 20 + nf) \o <<"0", "0">>, 1, 3))]
      inRange ==
        /\ c.month \in 1..12 /\ c.day \in 1..DaysIn(c.year, c.month)
        /\ c.hour < 24 /\ c.minute < 60 /\ c.second < 60
  IN  IF Len(s) >= n /\ shape /\ inRange THEN c ELSE ParseError

\* ------------------------------------------------------------------ state

VARIABLES
  dbType,        \* the backing engine: "sqlite" (embedded) or "postgres"
  loc,           \* UTC offset, in seconds, of the times the injected clock returns
  tick,          \* how often the clock has advanced
  keys,          \* the rows of table keys
  transactions,  \* the rows of table transactions
  ret,           \* what the last call of the Repository returned
  keyInsertedAt, \* history: api key -> clock value of its successful InsertKey
  txInsertedAt,  \* history: transaction id -> clock value of its successful InsertTransaction
  keyRevokedAt   \* history: api key -> clock value of the last DeactivateKey that updated its row

vars == <<dbType, loc, tick, keys, transactions, ret, keyInsertedAt, txInsertedAt, keyRevokedAt>>

\* The values the injected clock takes, in the order it takes them.
Times ==
  << [sec |-> 1614859200, ms |-> 250],    \* 2021-03-04T12:00:00.250Z
     [sec |-> 1614861241, ms |-> 0],      \* 2021-03-04T12:34:01.000Z
     [sec |-> 1614861241, ms |-> 500],    \* 2021-03-04T12:34:01.500Z  same second
     [sec |-> 1614861285, ms |-> 0],      \* 2021-03-04T12:34:45.000Z  same minute
     [sec |-> 1614862200, ms |-> 250],    \* 2021-03-04T12:50:00.250Z  same hour
     [sec |-> 1614864841, ms |-> 0],      \* 2021-03-04T13:34:01.000Z  same day
     [sec |-> 1614949200, ms |-> 500],    \* 2021-03-05T13:00:00.500Z  the next day
     [sec |-> 1617235200, ms |-> 120] >>  \* 2021-04-01T00:00:00.120Z  the next month

\* r.now()
now == Times[tick + 1]

DbTypes == {"sqlite", "postgres"}

Locations == {0, 3600}

KeyNames == <<"k1", "k2", "k3", "k4">>

ApiKeys == {KeyNames[i] : i \in 1..MaxKeys}

TxNames == <<"t1", "t2", "t3", "t4">>

TxIds == {TxNames[i] : i \in 1..MaxTxs}

\* The server.Key a caller registers under api key a.
KeyInput(a) ==
  [ApiKey |-> a, PrivateKey |-> <<"private", a>>, PublicKey |-> <<"public", a>>,
   Address |-> <<"address", a>>]

\* The server.Transaction a caller records under id: t1 is a raw write and
\* t2 a hash write of a file, both made with the first api key; the others
\* are encrypted writes made with the second.
TxInput(id) ==
  [ID |-> id,
   ApiKey    |-> IF id \in {"t1", "t2"} THEN KeyNames[1] ELSE KeyNames[2],
   DataBytes |-> CASE id = "t1" -> 5 [] id = "t2" -> 7 [] OTHER -> 11,
   Filename  |-> IF id = "t1" THEN NULL ELSE <<"f", id>>,
   Secret    |-> IF id \in {"t1", "t2"} THEN NULL ELSE <<"s", id>>,
   IsHash    |-> id = "t2"]

HoursBack == {1, 24}

Granularities == {"none", "minute", "hour", "day", "week"}

\* Errors.
NIL == "nil"

ErrNoRows == "sql: no rows in result set"

ErrConstraint == "UNIQUE constraint failed"

\* server.Key{} and a nil *server.Transaction.
ZeroKey ==
  [ApiKey |-> "", PrivateKey |-> <<>>, PublicKey |-> <<>>, Address |-> <<>>,
   CreatedAt |-> <<>>, RevokedAt |-> NULL]

NilTx == [nil |-> TRUE]

\* ----------------------------------------------------------------- engine

bool2integer(b) == IF b THEN 1 ELSE 0

\* The primary keys of the two tables.
KeyExists(a) == \E r \in keys : r.api_key = a

TxExists(id) == \E r \in transactions : r.id = id

\* A stored timestamp as the engine hands it back: the embedded engine
\* renders it in its own format, the client-server engine returns the text.
EngineText(s) ==
  LET c == Parse(ISO8601, s)
  IN  IF dbType = "sqlite" /\ s # NULL /\ c # ParseError
      THEN Format(c, ISO8601Sqlite)
      ELSE s

\* sqlx's scan of a keys row into server.Key.
ScanKey(r) ==
  [ApiKey |-> r.api_key, PrivateKey |-> r.private_key, PublicKey |-> r.public_key,
   Address |-> r.address, CreatedAt |-> EngineText(r.created_at),
   RevokedAt |-> EngineText(r.revoked_at)]

\* sqlx's scan of a transactions row into server.Transaction.
ScanTx(r) ==
  [ID |-> r.id, ApiKey |-> r.api_key, DataBytes |-> r.data_bytes,
   Filename |-> r.filename, Secret |-> r.secret, IsHash |-> r.is_hash = 1,
   CreatedAt |-> EngineText(r.created_at)]

\* The orders ORDER BY created_at may return the rows S in: ascending or
\* descending by the stored text, rows with equal text in any order.
OrderBy(S, desc) ==
  { s \in [1..Cardinality(S) -> S] :
      /\ \A i, j \in 1..Cardinality(S) : i # j => s[i] # s[j]
      /\ \A i, j \in 1..Cardinality(S) :
           i < j => IF desc THEN ~StrLess(s[i].created_at, s[j].created_at)
                            ELSE ~StrLess(s[j].created_at, s[i].created_at) }

\* Variant of Normalise that renders with the write layout.
Normalise_WriteLayout(s) ==
  LET parsedTime == Parse(ISO8601Sqlite, s)
  IN  IF parsedTime # ParseError THEN Format(parsedTime, ISO8601) ELSE s

\* The loop over a result's rows: a CreatedAt in the embedded engine's
\* format is rendered again, any other is left as it is.
Normalise(s) ==
  LET parsedTime == Parse(ISO8601Sqlite, s)
  IN  IF parsedTime # ParseError THEN Format(parsedTime, ISO8601DBOutput) ELSE s

NormaliseRow(row) == [row EXCEPT !.CreatedAt = Normalise(row.CreatedAt)]

\* SUM(data_bytes) over a set of rows.
RECURSIVE SumBytes(_)
SumBytes(S) ==
  IF S = {} THEN 0
  ELSE LET r == CHOOSE x \in S : TRUE IN r.data_bytes + SumBytes(S \ {r})

\* ------------------------------------------------------------------- init

\* No call is under way: the caller has taken the last result.
Idle == [op |-> "idle"]

Init ==
  /\ dbType \in DbTypes
  /\ loc \in Locations
  /\ tick = 0
  /\ keys = {}
  /\ transactions = {}
  /\ ret = Idle
  /\ keyInsertedAt = <<>>
  /\ txInsertedAt = <<>>
  /\ keyRevokedAt = <<>>

\* The environment: the clock moves on, at most max times.
Tick(max) ==
  /\ tick < max
  /\ tick' = tick + 1
  /\ UNCHANGED <<dbType, loc, keys, transactions, ret, keyInsertedAt, txInsertedAt, keyRevokedAt>>

\* The caller takes the result of its call; its next call may follow.
Return ==
  /\ ret # Idle
  /\ ret' = Idle
  /\ UNCHANGED <<dbType, loc, tick, keys, transactions, keyInsertedAt, txInsertedAt, keyRevokedAt>>

\* ------------------------------------------------------------------- keys

InsertKey(key) ==
  /\ ret = Idle
  /\ LET createdAt == Format(Civil(now, 0), ISO8601)
         row == [created_at |-> createdAt, api_key |-> key.ApiKey,
                 private_key |-> key.PrivateKey, public_key |-> key.PublicKey,
                 address |-> key.Address, revoked_at |-> NULL]
     IN  IF KeyExists(key.ApiKey)
         THEN /\ ret' = [op |-> "InsertKey", key |-> key, err |-> ErrConstraint]
              /\ UNCHANGED <<dbType, loc, tick, keys, transactions, keyInsertedAt,
                             txInsertedAt, keyRevokedAt>>
         ELSE /\ keys' = keys \cup {row}
              /\ keyInsertedAt' = (key.ApiKey :> now) @@ keyInsertedAt
              /\ ret' = [op |-> "InsertKey", key |-> key, err |-> NIL]
              /\ UNCHANGED <<dbType, loc, tick, transactions, txInsertedAt, keyRevokedAt>>

GetKey(apiKey) ==
  /\ ret = Idle
  /\ LET rows == {r \in keys : r.api_key = apiKey}
     IN  /\ \/ /\ rows = {}
               /\ ret' = [op |-> "GetKey", apiKey |-> apiKey, key |-> ZeroKey,
                          err |-> ErrNoRows]
            \/ \E r \in rows :
                 ret' = [op |-> "GetKey", apiKey |-> apiKey, key |-> ScanKey(r),
                         err |-> NIL]
         /\ UNCHANGED <<dbType, loc, tick, keys, transactions, keyInsertedAt, txInsertedAt,
                        keyRevokedAt>>

\* server.KeyUsage of a keys row and its sum.
ScanUsage(r, sum) ==
  [ApiKey |-> r.api_key, PublicKey |-> r.public_key, PrivateKey |-> r.private_key,
   Address |-> r.address, CreatedAt |-> EngineText(r.created_at),
   RevokedAt |-> EngineText(r.revoked_at), DataBytes |-> sum]

\* The row a LEFT JOIN pairs with a key that has no transaction.
NullRow == [null |-> TRUE]

\* Variant of LeftJoin: an inner join, which drops the keys without transactions.
InnerJoin ==
  {[k |-> k, t |-> t] : <<k, t>> \in {p \in keys \X transactions : p[2].api_key = p[1].api_key}}

\* keys k LEFT JOIN transactions t ON t.api_key = k.api_key
LeftJoin ==
  {[k |-> k, t |-> t] : <<k, t>> \in {p \in keys \X transactions : p[2].api_key = p[1].api_key}}
    \cup {[k |-> k, t |-> NullRow] :
            k \in {k \in keys : \A t \in transactions : t.api_key # k.api_key}}

\* SUM(COALESCE(t.data_bytes, 0)) over joined rows.
RECURSIVE SumCoalesce(_)
SumCoalesce(J) ==
  IF J = {} THEN 0
  ELSE LET j == CHOOSE x \in J : TRUE
       IN  (IF j.t = NullRow THEN 0 ELSE j.t.data_bytes) + SumCoalesce(J \ {j})

GetAllKeysUsage ==
  /\ ret = Idle
  /\ LET selected == {j \in LeftJoin : j.k.revoked_at = NULL}
         groups   == {j.k : j \in selected}
         sum(k)   == SumCoalesce({j \in selected : j.k.api_key = k.api_key})
     IN  /\ \E ord \in OrderBy(groups, FALSE) :
              ret' = [op |-> "GetAllKeysUsage",
                      keys |-> [i \in 1..Len(ord) |->
                                  NormaliseRow(ScanUsage(ord[i], sum(ord[i])))],
                      err |-> NIL]
         /\ UNCHANGED <<dbType, loc, tick, keys, transactions, keyInsertedAt, txInsertedAt,
                        keyRevokedAt>>

\* Variant of GetAllKeys without WHERE revoked_at IS NULL.
GetAllKeys_NoFilter ==
  /\ ret = Idle
  /\ \E ord \in OrderBy(keys, FALSE) :
       ret' = [op |-> "GetAllKeys",
               keys |-> [i \in 1..Len(ord) |-> NormaliseRow(ScanKey(ord[i]))],
               err |-> NIL]
  /\ UNCHANGED <<dbType, loc, tick, keys, transactions, keyInsertedAt, txInsertedAt,
                 keyRevokedAt>>

GetAllKeys ==
  /\ ret = Idle
  /\ LET rows == {r \in keys : r.revoked_at = NULL}
     IN  /\ \E ord \in OrderBy(rows, FALSE) :
              ret' = [op |-> "GetAllKeys",
                      keys |-> [i \in 1..Len(ord) |-> NormaliseRow(ScanKey(ord[i]))],
                      err |-> NIL]
         /\ UNCHANGED <<dbType, loc, tick, keys, transactions, keyInsertedAt, txInsertedAt,
                        keyRevokedAt>>

\* Variant of DeactivateKey with AND revoked_at IS NULL: a revoked key keeps
\* its first timestamp.
DeactivateKey_OnlyActive(apikey) ==
  /\ ret = Idle
  /\ LET stamp == Format(Civil(now, loc), ISO8601)
         hit   == {r \in keys : r.api_key = apikey /\ r.revoked_at = NULL}
     IN  /\ keys' = {IF r \in hit THEN [r EXCEPT !.revoked_at = stamp] ELSE r : r \in keys}
         /\ keyRevokedAt' = [a \in {r.api_key : r \in hit} |-> now] @@ keyRevokedAt
         /\ ret' = [op |-> "DeactivateKey", apikey |-> apikey,
                    before |-> {r.revoked_at : r \in {r \in keys : r.api_key = apikey}},
                    err |-> NIL]
         /\ UNCHANGED <<dbType, loc, tick, transactions, keyInsertedAt, txInsertedAt>>

\* Variant of DeactivateKey that also deletes the key's transactions.
DeactivateKey_Cascade(apikey) ==
  /\ ret = Idle
  /\ LET stamp == Format(Civil(now, loc), ISO8601)
         hit   == {r \in keys : r.api_key = apikey}
     IN  /\ keys' = {IF r \in hit THEN [r EXCEPT !.revoked_at = stamp] ELSE r : r \in keys}
         /\ transactions' = {t \in transactions : t.api_key # apikey}
         /\ keyRevokedAt' = [a \in {r.api_key : r \in hit} |-> now] @@ keyRevokedAt
         /\ ret' = [op |-> "DeactivateKey", apikey |-> apikey,
                    before |-> {r.revoked_at : r \in hit}, err |-> NIL]
         /\ UNCHANGED <<dbType, loc, tick, keyInsertedAt, txInsertedAt>>

DeactivateKey(apikey) ==
  /\ ret = Idle
  /\ LET stamp == Format(Civil(now, loc), ISO8601)
         hit   == {r \in keys : r.api_key = apikey}
     IN  /\ keys' = {IF r \in hit THEN [r EXCEPT !.revoked_at = stamp] ELSE r : r \in keys}
         /\ keyRevokedAt' = [a \in {r.api_key : r \in hit} |-> now] @@ keyRevokedAt
         /\ ret' = [op |-> "DeactivateKey", apikey |-> apikey,
                    before |-> {r.revoked_at : r \in hit}, err |-> NIL]
         /\ UNCHANGED <<dbType, loc, tick, transactions, keyInsertedAt, txInsertedAt>>

\* ----------------------------------------------------------- transactions

InsertTransaction(tx) ==
  /\ ret = Idle
  /\ LET createdAt == Format(Civil(now, 0), ISO8601)
         row == [created_at |-> createdAt, id |-> tx.ID, api_key |-> tx.ApiKey,
                 data_bytes |-> tx.DataBytes, filename |-> tx.Filename,
                 secret |-> tx.Secret, is_hash |-> bool2integer(tx.IsHash)]
     IN  IF TxExists(tx.ID)
         THEN /\ ret' = [op |-> "InsertTransaction", tx |-> tx, err |-> ErrConstraint]
              /\ UNCHANGED <<dbType, loc, tick, keys, transactions, keyInsertedAt,
                             txInsertedAt, keyRevokedAt>>
         ELSE /\ transactions' = transactions \cup {row}
              /\ txInsertedAt' = (tx.ID :> now) @@ txInsertedAt
              /\ ret' = [op |-> "InsertTransaction", tx |-> tx, err |-> NIL]
              /\ UNCHANGED <<dbType, loc, tick, keys, keyInsertedAt, keyRevokedAt>>

\* Variant of GetTransaction without the check of len(txs): no row gives a
\* zero transaction and no error.
GetTransaction_NoCheck(txid) ==
  /\ ret = Idle
  /\ LET rows == {r \in transactions : r.id = txid}
     IN  /\ \/ /\ rows = {}
               /\ ret' = [op |-> "GetTransaction", txid |-> txid, tx |-> NilTx, err |-> NIL]
            \/ \E r \in rows :
                 ret' = [op |-> "GetTransaction", txid |-> txid, tx |-> ScanTx(r),
                         err |-> NIL]
         /\ UNCHANGED <<dbType, loc, tick, keys, transactions, keyInsertedAt, txInsertedAt,
                        keyRevokedAt>>

GetTransaction(txid) ==
  /\ ret = Idle
  /\ LET rows == {r \in transactions : r.id = txid}
     IN  /\ \/ /\ rows = {}
               /\ ret' = [op |-> "GetTransaction", txid |-> txid, tx |-> NilTx,
                          err |-> ErrNoRows]
            \/ \E r \in rows :
                 ret' = [op |-> "GetTransaction", txid |-> txid, tx |-> ScanTx(r),
                         err |-> NIL]
         /\ UNCHANGED <<dbType, loc, tick, keys, transactions, keyInsertedAt, txInsertedAt,
                        keyRevokedAt>>

\* WHERE created_at >= $1
NotBefore(r, timeBack) == ~StrLess(r.created_at, timeBack)

GetAllTransactions(all, hoursBack) ==
  /\ ret = Idle
  /\ LET timeBack == Format(Civil(AddHours(now, -hoursBack), 0), ISO8601)
         rows == IF all THEN transactions
                 ELSE {r \in transactions : NotBefore(r, timeBack)}
     IN  /\ \E ord \in OrderBy(rows, TRUE) :
              ret' = [op |-> "GetAllTransactions", all |-> all, hoursBack |-> hoursBack,
                      at |-> now,
                      txs |-> [i \in 1..Len(ord) |-> NormaliseRow(ScanTx(ord[i]))],
                      err |-> NIL]
         /\ UNCHANGED <<dbType, loc, tick, keys, transactions, keyInsertedAt, txInsertedAt,
                        keyRevokedAt>>

\* Variant of granularitySecondsToPositionAndFormat whose fallback is the hour.
granularity_FallbackHour(granularitySeconds) ==
  CASE granularitySeconds = "none" ->
         [position |-> 20, format |-> [sep |-> "T", fields |-> 6, frac |-> FALSE, zone |-> <<>>]]
    [] granularitySeconds = "minute" ->
         [position |-> 17, format |-> [sep |-> "T", fields |-> 5, frac |-> FALSE, zone |-> <<>>]]
    [] OTHER ->
         [position |-> 14, format |-> [sep |-> "T", fields |-> 4, frac |-> FALSE, zone |-> <<>>]]

granularitySecondsToPositionAndFormat(granularitySeconds) ==
  CASE granularitySeconds = "none" ->
         [position |-> 20, format |-> [sep |-> "T", fields |-> 6, frac |-> FALSE, zone |-> <<>>]]
    [] granularitySeconds = "minute" ->
         [position |-> 17, format |-> [sep |-> "T", fields |-> 5, frac |-> FALSE, zone |-> <<>>]]
    [] granularitySeconds = "hour" ->
         [position |-> 14, format |-> [sep |-> "T", fields |-> 4, frac |-> FALSE, zone |-> <<>>]]
    [] OTHER ->
         [position |-> 11, format |-> [sep |-> "T", fields |-> 3, frac |-> FALSE, zone |-> <<>>]]

\* WHERE created_at > $2 AND created_at < $3
InRange(r, fromText, toText) ==
  StrLess(fromText, r.created_at) /\ StrLess(r.created_at, toText)

\* ORDER BY timestamp DESC over distinct texts.
RECURSIVE SortDesc(_)
SortDesc(S) ==
  IF S = {} THEN <<>>
  ELSE LET m == CHOOSE x \in S : \A y \in S : ~StrLess(x, y)
       IN  <<m>> \o SortDesc(S \ {m})

\* One row per timestamp of ord: its count(*) and sum(data_bytes).
GroupRows(rows, position, ord) ==
  [i \in 1..Len(ord) |->
     [Timestamp |-> ord[i],
      Count     |-> Cardinality({r \in rows : Substr(r.created_at, 0, position) = ord[i]}),
      DataBytes |-> SumBytes({r \in rows : Substr(r.created_at, 0, position) = ord[i]})]]

\* GROUP BY timestamp ORDER BY timestamp DESC, the timestamp being
\* SUBSTR(created_at, 0, position).
GroupByTimestamp(rows, position) ==
  GroupRows(rows, position, SortDesc({Substr(r.created_at, 0, position) : r \in rows}))

\* The loop over the grouped rows: each timestamp parsed with the format of
\* the granularity, the first failure ending the call.
InfoResult(txs, format) ==
  IF \E i \in 1..Len(txs) : Parse(format, txs[i].Timestamp) = ParseError
  THEN [txInfos |-> <<>>, err |-> "parsing time"]
  ELSE [txInfos |-> [i \in 1..Len(txs) |->
                       [Timestamp |-> Instant(Parse(format, txs[i].Timestamp)),
                        Count |-> txs[i].Count, DataBytes |-> txs[i].DataBytes]],
        err |-> NIL]

GetTransactionInfo(from, to, granularity) ==
  /\ ret = Idle
  /\ LET pf == granularitySecondsToPositionAndFormat(granularity) IN
     /\ \E fromText \in {Format(Civil(from, 0), ISO8601)},
           toText \in {Format(Civil(to, 0), ISO8601)} :
          \E txs \in {GroupByTimestamp({r \in transactions : InRange(r, fromText, toText)},
                                       pf.position)} :
            \E res \in {InfoResult(txs, pf.format)} :
              ret' = [op |-> "GetTransactionInfo", from |-> from, to |-> to,
                      granularity |-> granularity, txInfos |-> res.txInfos, err |-> res.err]
     /\ UNCHANGED <<dbType, loc, tick, keys, transactions, keyInsertedAt, txInsertedAt,
                    keyRevokedAt>>

Health ==
  /\ ret = Idle
  /\ ret' = [op |-> "Health", err |-> NIL]
  /\ UNCHANGED <<dbType, loc, tick, keys, transactions, keyInsertedAt, txInsertedAt,
                 keyRevokedAt>>

\* ------------------------------------------------------------------- spec

\* The clock values seen so far: what a caller can ask about.
Seen == {Times[i] : i \in 1..(tick + 1)}

\* The calls on the keys table.
KeyCall ==
  \/ \E a \in ApiKeys : InsertKey(KeyInput(a))
  \/ \E a \in ApiKeys : GetKey(a)
  \/ GetAllKeys
  \/ \E a \in ApiKeys : DeactivateKey(a)

\* The calls on the transactions table.
TxCall ==
  \/ \E id \in TxIds : InsertTransaction(TxInput(id))
  \/ \E id \in TxIds : GetTransaction(id)
  \/ \E all \in BOOLEAN, h \in HoursBack : GetAllTransactions(all, h)
  \/ \E from \in Seen, to \in Seen, g \in Granularities :
       Before(from, to) /\ GetTransactionInfo(from, to, g)

\* Calls are synchronous (each operation waits for ret = Idle): one is made
\* once the last has returned.
Next ==
  \/ Tick(MaxAllTick)
  \/ Return
  \/ KeyCall
  \/ TxCall
  \/ GetAllKeysUsage
  \/ Health

\* Every operation of the Repository.
Spec == Init /\ [][Next]_vars

NextKeys ==
  \/ Tick(MaxKeyTick)
  \/ Return
  \/ KeyCall

\* The keys table alone, on a longer clock.
SpecKeys == Init /\ [][NextKeys]_vars

NextTx ==
  \/ Tick(MaxTick)
  \/ Return
  \/ TxCall

\* None of the operations on transactions reads the clock's location.
InitTx == Init /\ loc = 0

\* The transactions table alone, on the longest clock.
SpecTx == InitTx /\ [][NextTx]_vars

\* ----------------------------------------------------------------- claims

\* The api keys whose InsertKey succeeded, and of those the ones a
\* DeactivateKey has revoked.
Inserted == DOMAIN keyInsertedAt

Deactivated == DOMAIN keyRevokedAt

SeqRange(q) == {q[i] : i \in 1..Len(q)}

\* C1: what GetAllKeys returns is, without error, exactly one entry for
\* every key that was inserted and never deactivated, and no entry for a
\* key on which DeactivateKey has succeeded (the empty sequence when there
\* is none).
C1_GetAllKeysActive ==
  ret.op = "GetAllKeys" =>
    /\ ret.err = NIL
    /\ {k.ApiKey : k \in SeqRange(ret.keys)} = Inserted \ Deactivated
    /\ Len(ret.keys) = Cardinality(Inserted \ Deactivated)
    /\ \A k \in SeqRange(ret.keys) : k.RevokedAt = NULL

\* GetAllKeys has returned an active key while another key is revoked.
C1_Witness ==
  /\ ret.op = "GetAllKeys"
  /\ Len(ret.keys) = 1
  /\ Deactivated # {}

\* C2: what GetAllKeysUsage returns is exactly one row per active key, none
\* for a revoked key, and each row's DataBytes is the sum of data_bytes over
\* the stored transactions of that key, 0 when it has none.
C2_UsageSums ==
  ret.op = "GetAllKeysUsage" =>
    /\ ret.err = NIL
    /\ {k.ApiKey : k \in SeqRange(ret.keys)} = Inserted \ Deactivated
    /\ Len(ret.keys) = Cardinality(Inserted \ Deactivated)
    /\ \A k \in SeqRange(ret.keys) :
         k.DataBytes = SumBytes({t \in transactions : t.api_key = k.ApiKey})

\* GetAllKeysUsage has returned a key with two transactions and a key with
\* none.
C2_Witness ==
  /\ ret.op = "GetAllKeysUsage"
  /\ \E k \in SeqRange(ret.keys) : k.DataBytes = 0
  /\ \E k \in SeqRange(ret.keys) :
       k.DataBytes = 12 /\ Cardinality({t \in transactions : t.api_key = k.ApiKey}) = 2

\* The write format of the clock value t.
Canonical(t) == Format(Civil(t, 0), ISO8601)

\* C3: GetKey and GetTransaction return what was inserted in every field
\* the caller supplied, with createdAt the insert-time clock value in the
\* write format, whichever engine the row comes back from.
C3_RoundTrip ==
  /\ (ret.op = "GetKey" /\ ret.err = NIL) =>
       /\ [ApiKey |-> ret.key.ApiKey, PrivateKey |-> ret.key.PrivateKey,
           PublicKey |-> ret.key.PublicKey, Address |-> ret.key.Address]
            = KeyInput(ret.apiKey)
       /\ ret.key.CreatedAt = Canonical(keyInsertedAt[ret.apiKey])
  /\ (ret.op = "GetTransaction" /\ ret.err = NIL) =>
       /\ [ID |-> ret.tx.ID, ApiKey |-> ret.tx.ApiKey, DataBytes |-> ret.tx.DataBytes,
           Filename |-> ret.tx.Filename, Secret |-> ret.tx.Secret,
           IsHash |-> ret.tx.IsHash] = TxInput(ret.txid)
       /\ ret.tx.CreatedAt = Canonical(txInsertedAt[ret.txid])

\* C4 as claimed: a DeactivateKey of a key that is already revoked succeeds
\* and leaves the stored keys as they were.
C4_Idempotent ==
  [][\A a \in ApiKeys :
       (DeactivateKey(a) /\ a \in Deactivated) => (ret'.err = NIL /\ keys' = keys)]_vars

\* C4 as amended: a DeactivateKey of a key that is already revoked succeeds,
\* leaves the transactions, the other keys and the key's other columns as
\* they were and the key revoked, and sets revoked_at again: the new value
\* is the old one exactly when the clock has not moved since the last call.
C4_Rerevoked ==
  [][\A a \in ApiKeys :
       (DeactivateKey(a) /\ a \in Deactivated) =>
         /\ ret'.err = NIL
         /\ transactions' = transactions
         /\ \A r \in keys : r.api_key # a => r \in keys'
         /\ \A r \in keys : r.api_key = a =>
              \E r2 \in keys' :
                 /\ [r2 EXCEPT !.revoked_at = r.revoked_at] = r
                 /\ r2.revoked_at # NULL
                 /\ (r2.revoked_at = r.revoked_at) <=> (now = keyRevokedAt[a])
         /\ Cardinality(keys') = Cardinality(keys)]_vars

\* A second DeactivateKey of a key has returned, after the clock moved, and
\* the key's revoked_at is no longer the first call's.
C4_Witness ==
  /\ ret.op = "DeactivateKey"
  /\ ret.err = NIL
  /\ \E r \in keys :
       /\ r.api_key = ret.apikey
       /\ ret.before # {NULL}
       /\ r.revoked_at \notin ret.before

\* The ids a result lists, in its order.
TxIdsOf(txs) == [i \in 1..Len(txs) |-> txs[i].ID]

\* C5: GetAllTransactions lists every stored transaction when all is set,
\* otherwise exactly those inserted at or after now minus hoursBack hours,
\* and lists them latest first.
C5_RecentDescending ==
  ret.op = "GetAllTransactions" =>
    LET ids  == TxIdsOf(ret.txs)
        want == IF ret.all THEN DOMAIN txInsertedAt
                ELSE {id \in DOMAIN txInsertedAt :
                        ~Before(txInsertedAt[id], AddHours(ret.at, -ret.hoursBack))}
    IN  /\ ret.err = NIL
        /\ SeqRange(ids) = want
        /\ Len(ids) = Cardinality(want)
        /\ \A i, j \in 1..Len(ids) :
             i < j => ~Before(txInsertedAt[ids[i]], txInsertedAt[ids[j]])

RECURSIVE SumCounts(_)
SumCounts(q) == IF q = <<>> THEN 0 ELSE q[1].Count + SumCounts(Tail(q))

\* C6: the buckets of GetTransactionInfo count exactly the transactions
\* inserted in [from, to): from included, to excluded.
C6_HalfOpen ==
  (ret.op = "GetTransactionInfo" /\ ret.err = NIL) =>
    SumCounts(ret.txInfos)
      = Cardinality({id \in DOMAIN txInsertedAt :
                       /\ ~Before(txInsertedAt[id], ret.from)
                       /\ Before(txInsertedAt[id], ret.to)})

\* Seconds in the unit of a granularity; any unrecognised one is the day.
UnitSeconds(g) ==
  CASE g = "none" -> 1 [] g = "minute" -> 60 [] g = "hour" -> 3600 [] OTHER -> 86400

\* The start of the unit of granularity g that the clock value t lies in.
UnitStart(t, g) == [sec |-> (t.sec \div UnitSeconds(g)) * UnitSeconds(g), ms |-> 0]

\* The transactions the statement of a GetTransactionInfo(from, to, ..) selects.
InQuery(from, to) == {r \in transactions : InRange(r, Canonical(from), Canonical(to))}

C8_NotFound ==
  /\ [](/\ (ret.op = "GetKey" /\ ret.apiKey \notin Inserted) =>
             (ret.err = ErrNoRows /\ ret.key = ZeroKey)
        /\ (ret.op = "GetTransaction" /\ ret.txid \notin DOMAIN txInsertedAt) =>
             (ret.err = ErrNoRows /\ ret.tx = NilTx))
  /\ [][(ret' # ret /\ ret'.op \in {"GetKey", "GetTransaction"}) =>
          (keys' = keys /\ transactions' = transactions)]_vars

\* GetTransaction has returned sql.ErrNoRows from a table that holds rows.
C8_Witness ==
  /\ ret.op = "GetTransaction"
  /\ ret.err = ErrNoRows
  /\ transactions # {}
  /\ keys # {}

\* C9: no step takes a row out of keys or transactions, none sets a
\* revoked_at back to NULL, and a DeactivateKey leaves every transaction
\* and every other key as it was.
C9_OneWay ==
  [][/\ \A r \in keys :
          \E r2 \in keys' :
             /\ r2.api_key = r.api_key
             /\ r.revoked_at # NULL => r2.revoked_at # NULL
     /\ transactions \subseteq transactions'
     /\ \A a \in ApiKeys :
          DeactivateKey(a) =>
            /\ transactions' = transactions
            /\ \A r \in keys : r.api_key # a => r \in keys']_vars

\* DeactivateKey has revoked a key that has transactions, beside another key.
C9_Witness ==
  /\ ret.op = "DeactivateKey"
  /\ \E r \in keys : r.api_key = ret.apikey /\ r.revoked_at # NULL
  /\ \E t \in transactions : t.api_key = ret.apikey
  /\ \E r \in keys : r.api_key # ret.apikey

\* The createdAt values a list operation has returned, each with the clock
\* value of its insert.
Listed ==
  CASE ret.op \in {"GetAllKeys", "GetAllKeysUsage"} ->
         {<<k.CreatedAt, keyInsertedAt[k.ApiKey]>> : k \in SeqRange(ret.keys)}
    [] ret.op = "GetAllTransactions" ->
         {<<t.CreatedAt, txInsertedAt[t.ID]>> : t \in SeqRange(ret.txs)}
    [] OTHER -> {}

\* C10 as claimed: a createdAt that the embedded engine hands to a list
\* operation comes out in the write format.
C10_WriteFormat ==
  dbType = "sqlite" => \A p \in Listed : p[1] = Canonical(p[2])

\* C10 as amended: a createdAt that the embedded engine hands to a list
\* operation comes out in the layout ISO8601DBOutput, the write format with
\* a space in place of the 'T'; a value that does not parse in the embedded
\* engine's format, as every value of the client-server engine, comes out
\* as it is stored.
C10_DBOutput ==
  \A p \in Listed :
     IF dbType = "sqlite"
     THEN /\ p[1] = Format(Civil(p[2], 0), ISO8601DBOutput)
          /\ p[1][11] = " " /\ p[1][Len(p[1])] = "Z"
          /\ [p[1] EXCEPT ![11] = "T"] = Canonical(p[2])
     ELSE p[1] = Canonical(p[2])

\* GetAllTransactions has returned, from the embedded engine, a transaction
\* inserted at a clock value with a fraction.
C10_Witness ==
  /\ ret.op = "GetAllTransactions"
  /\ dbType = "sqlite"
  /\ \E p \in Listed : p[2].ms # 0

====
